---- MODULE Spec2Model ----
(***************************************************************************)
(* ComputerTool (computer_use_demo/tools/computer.py): the action          *)
(* dispatcher __call__, the coordinate scaling between computer space and  *)
(* API space, and the screenshot taken after an action.                    *)
(*                                                                         *)
(* Invocations are asyncio coroutines on one event loop: a coroutine runs  *)
(* without interruption until it awaits asyncio.sleep, so one step of an   *)
(* invocation is everything between two suspension points.                 *)
(*                                                                         *)
(* Python values are modelled with their type tag, because the validation  *)
(* branches on isinstance.  The float arithmetic of scale_coordinates is   *)
(* modelled with exact ratios and Python's round (ties to even); for the   *)
(* resolutions used below the two agree on every input in range.           *)
(***************************************************************************)
EXTENDS Integers, Sequences, FiniteSets, TLC

VARIABLES width, height, pc, req, events, pointer, screen, returned, probe

vars == <<width, height, pc, req, events, pointer, screen, returned, probe>>

(***************************************************************************)
(* Program constants and configuration                                     *)
(***************************************************************************)
IMAGE_MAX_WIDTH == 1200

ScalingEnabled == TRUE

\* WIDTH x HEIGHT environments of the dispatcher runs.
Resolutions == {<<1920, 1080>>, <<800, 600>>}

\* WIDTH x HEIGHT environments of the scaling runs.
ScaleResolutions ==
    {<<1920, 1080>>, <<1280, 800>>, <<1024, 768>>, <<800, 600>>,
     <<400, 300>>, <<399, 300>>, <<100, 100>>}

\* How far beyond the screen edge the scaling runs probe.
ProbeMargin == 1

Invocations == {1, 2}

(***************************************************************************)
(* Python values                                                           *)
(***************************************************************************)
Int_(v) == [t |-> "int", v |-> v]

Bool_(v) == [t |-> "bool", v |-> v]

\* a float with a fractional part; v is its floor
Float_(v) == [t |-> "float", v |-> v]

StrElem == [t |-> "str", v |-> 0]

List_(es) == [t |-> "list", elems |-> es]

Tuple_(es) == [t |-> "tuple", elems |-> es]

NoneCoord == [t |-> "none", elems |-> <<>>]

Str_(s) == [t |-> "str", s |-> s]

NoneText == [t |-> "none", s |-> <<>>]

IntText == [t |-> "int", s |-> <<>>]

\* isinstance(i, int): bool is a subclass of int
IsInt(e) == e.t \in {"int", "bool"}

Action ==
    {"key", "type", "mouse_move", "left_click", "left_click_drag",
     "right_click", "middle_click", "double_click", "screenshot",
     "cursor_position"}

UnknownActions == {"scroll"}

TextVals ==
    {NoneText, Str_(<<"A">>), Str_(<<"C", "+", " ", "a">>), IntText}

CoordVals ==
    {NoneCoord,
     List_(<<Int_(600), Int_(400)>>),
     List_(<<Int_(1900), Int_(1000)>>),
     List_(<<Int_(2000), Int_(5)>>),
     List_(<<Int_(7)>>),
     List_(<<Int_(1), Int_(2), Int_(3)>>),
     List_(<<StrElem, Int_(2)>>),
     List_(<<Int_(-1), Int_(2)>>),
     List_(<<Int_(3), Float_(2)>>),
     List_(<<Bool_(1), Int_(2)>>),
     Tuple_(<<Int_(600), Int_(400)>>)}

(***************************************************************************)
(* scale_coordinates                                                       *)
(***************************************************************************)
\* int(n / d) in place of round: the fraction is dropped
RoundTruncating(n, d) == n \div d

\* round(n / d) for d > 0, ties to the even integer
Round(n, d) ==
    LET q == n \div d
        r == n % d
    IN  IF 2 * r < d THEN q
        ELSE IF 2 * r > d THEN q + 1
        ELSE IF q % 2 = 0 THEN q ELSE q + 1

RECURSIVE GCD(_, _)
GCD(a, b) == IF b = 0 THEN a ELSE GCD(b, a % b)

\* the quotient n / d in lowest terms, <<numerator, denominator>>
Ratio(n, d) == <<n \div GCD(n, d), d \div GCD(n, d)>>

\* target_dimension["width"] / self.width
x_scaling_factor(w, h) == Ratio(IMAGE_MAX_WIDTH, w)

\* target_dimension["height"] / self.height, where the target height is
\* IMAGE_MAX_WIDTH / (w / h) = IMAGE_MAX_WIDTH * h / w
y_scaling_factor(w, h) == Ratio(IMAGE_MAX_WIDTH * h, w * h)

ScaleUp(v, f) == Round(v * f[2], f[1])

ScaleDown(v, f) == Round(v * f[1], f[2])

scale_coordinates(w, h, source, x, y) ==
    IF ~ScalingEnabled THEN [ok |-> TRUE, x |-> x, y |-> y]
    ELSE IF source = "api"
    THEN IF x > w \/ y > h
         THEN [ok |-> FALSE, x |-> x, y |-> y]
         ELSE [ok |-> TRUE,
               x |-> ScaleUp(x, x_scaling_factor(w, h)),
               y |-> ScaleUp(y, y_scaling_factor(w, h))]
    ELSE [ok |-> TRUE,
          x |-> ScaleDown(x, x_scaling_factor(w, h)),
          y |-> ScaleDown(y, y_scaling_factor(w, h))]

(***************************************************************************)
(* Text handling of the key action                                         *)
(***************************************************************************)
\* "+" in text
HasPlus(s) == \E k \in 1..Len(s) : s[k] = "+"

\* str.lower on the characters used here
LowerChar(ch) == IF ch = "A" THEN "a" ELSE IF ch = "C" THEN "c" ELSE ch

Lower(s) == [k \in 1..Len(s) |-> LowerChar(s[k])]

RECURSIVE Strip(_)
\* str.strip
Strip(s) ==
    IF s = <<>> THEN s
    ELSE IF Head(s) = " " THEN Strip(Tail(s))
    ELSE IF s[Len(s)] = " " THEN Strip(SubSeq(s, 1, Len(s) - 1))
    ELSE s

RECURSIVE Split(_)
\* text.split("+")
Split(s) ==
    IF ~HasPlus(s) THEN <<s>>
    ELSE LET k == CHOOSE j \in 1..Len(s) :
                      s[j] = "+" /\ \A m \in 1..(j - 1) : s[m] # "+"
         IN  <<SubSeq(s, 1, k - 1)>> \o Split(SubSeq(s, k + 1, Len(s)))

\* [key.strip().lower() for key in text.split("+")]
HotkeyKeys(s) ==
    LET parts == Split(s)
    IN  [k \in 1..Len(parts) |-> Lower(Strip(parts[k]))]

(***************************************************************************)
(* Events of one invocation, results, outcomes                             *)
(***************************************************************************)
Ev(op, x, y, keys) == [op |-> op, x |-> x, y |-> y, keys |-> keys]

PointerOps == {"moveTo", "dragTo"}

ClickOps == {"click", "rightClick", "middleClick", "doubleClick"}

KeyboardOps == {"hotkey", "press", "write"}

InputOps == PointerOps \cup ClickOps \cup KeyboardOps

NoOutput == [present |-> FALSE, x |-> 0, y |-> 0]

NoImage == [present |-> FALSE, screen |-> 0, w |-> 0, h |-> 0]

\* raise ToolError(msg) after the events done so far
Raise(msg, evs) ==
    [outcome |-> "raise", error |-> msg, output |-> NoOutput,
     base64_image |-> NoImage, events |-> evs]

\* return ToolResult(output=..., base64_image=...)
Return(out, img, evs) ==
    [outcome |-> "return", error |-> "", output |-> out,
     base64_image |-> img, events |-> evs]

\* the coroutine is suspended in asyncio.sleep(self._screenshot_delay)
Sleep(evs) ==
    [outcome |-> "sleep", error |-> "", output |-> NoOutput,
     base64_image |-> NoImage,
     events |-> evs \o <<Ev("sleep", 0, 0, <<>>)>>]

(***************************************************************************)
(* screenshot: grab, resize to API space, save, read back                  *)
(***************************************************************************)
screenshot(w, h, scr, exists, evs) ==
    LET grabbed == evs \o <<Ev("grab", 0, 0, <<>>)>>
        size == IF ScalingEnabled
                THEN scale_coordinates(w, h, "computer", w, h)
                ELSE [ok |-> TRUE, x |-> w, y |-> h]
    IN  IF exists
        THEN Return(NoOutput,
                    [present |-> TRUE, screen |-> scr,
                     w |-> size.x, h |-> size.y],
                    grabbed)
        ELSE Raise("Failed to take screenshot", grabbed)

(***************************************************************************)
(* __call__ up to its first suspension point                               *)
(***************************************************************************)
MoveActions == {"mouse_move", "left_click_drag"}

TextActions == {"key", "type"}

BareActions ==
    {"left_click", "right_click", "double_click", "middle_click",
     "screenshot", "cursor_position"}

\* without the check of line 114
ValidateMoveAnyElements(text, coordinate) ==
    IF coordinate.t = "none" THEN "coordinate is required"
    ELSE IF text.t # "none" THEN "text is not accepted"
    ELSE IF coordinate.t # "list" \/ Len(coordinate.elems) # 2
    THEN "must be a tuple of length 2"
    ELSE ""

ValidateMove(text, coordinate) ==
    IF coordinate.t = "none" THEN "coordinate is required"
    ELSE IF text.t # "none" THEN "text is not accepted"
    ELSE IF coordinate.t # "list" \/ Len(coordinate.elems) # 2
    THEN "must be a tuple of length 2"
    ELSE IF ~(\A k \in 1..2 :
                IsInt(coordinate.elems[k]) /\ coordinate.elems[k].v >= 0)
    THEN "must be a tuple of non-negative ints"
    ELSE ""

\* the pointer is moved before the point is scaled and checked
MoveBranchCheckAfter(w, h, action, text, coordinate) ==
    LET v == ValidateMove(text, coordinate)
    IN  IF v # "" THEN Raise(v, <<>>)
        ELSE LET x0 == coordinate.elems[1].v
                 y0 == coordinate.elems[2].v
                 s == scale_coordinates(w, h, "api", x0, y0)
                 op == IF action = "mouse_move" THEN "moveTo" ELSE "dragTo"
             IN  IF ~s.ok THEN Raise("out of bounds", <<Ev(op, x0, y0, <<>>)>>)
                 ELSE Sleep(<<Ev(op, s.x, s.y, <<>>)>>)

MoveBranch(w, h, action, text, coordinate) ==
    LET v == ValidateMove(text, coordinate)
    IN  IF v # "" THEN Raise(v, <<>>)
        ELSE LET s == scale_coordinates(w, h, "api",
                                        coordinate.elems[1].v,
                                        coordinate.elems[2].v)
             IN  IF ~s.ok THEN Raise("out of bounds", <<>>)
                 ELSE IF action = "mouse_move"
                 THEN Sleep(<<Ev("moveTo", s.x, s.y, <<>>)>>)
                 ELSE Sleep(<<Ev("dragTo", s.x, s.y, <<>>)>>)

\* without the check of line 131
ValidateTextAnyCoordinate(text, coordinate) ==
    IF text.t = "none" THEN "text is required"
    ELSE IF text.t # "str" THEN "must be a string"
    ELSE ""

ValidateText(text, coordinate) ==
    IF text.t = "none" THEN "text is required"
    ELSE IF coordinate.t # "none" THEN "coordinate is not accepted"
    ELSE IF text.t # "str" THEN "must be a string"
    ELSE ""

KeyEvents(s) ==
    IF HasPlus(s) THEN <<Ev("hotkey", 0, 0, HotkeyKeys(s))>>
    ELSE <<Ev("press", 0, 0, <<Lower(s)>>)>>

TextBranch(action, text, coordinate) ==
    LET v == ValidateText(text, coordinate)
    IN  IF v # "" THEN Raise(v, <<>>)
        ELSE IF action = "key" THEN Sleep(KeyEvents(text.s))
        ELSE Sleep(<<Ev("write", 0, 0, <<text.s>>)>>)

\* without the check of line 156
ValidateBareAnyText(text, coordinate) ==
    IF coordinate.t # "none" THEN "coordinate is not accepted"
    ELSE ""

ValidateBare(text, coordinate) ==
    IF text.t # "none" THEN "text is not accepted"
    ELSE IF coordinate.t # "none" THEN "coordinate is not accepted"
    ELSE ""

\* double_click done as two single clicks
ClickEventsTwoClicks(action) ==
    IF action = "left_click" THEN <<Ev("click", 0, 0, <<>>)>>
    ELSE IF action = "right_click" THEN <<Ev("rightClick", 0, 0, <<>>)>>
    ELSE IF action = "middle_click" THEN <<Ev("middleClick", 0, 0, <<>>)>>
    ELSE <<Ev("click", 0, 0, <<>>), Ev("click", 0, 0, <<>>)>>

ClickEvents(action) ==
    IF action = "left_click" THEN <<Ev("click", 0, 0, <<>>)>>
    ELSE IF action = "right_click" THEN <<Ev("rightClick", 0, 0, <<>>)>>
    ELSE IF action = "middle_click" THEN <<Ev("middleClick", 0, 0, <<>>)>>
    ELSE <<Ev("doubleClick", 0, 0, <<>>)>>

\* the position is reported together with a capture of the screen
cursor_position_with_capture(w, h, ptr) ==
    LET s == scale_coordinates(w, h, "computer", ptr[1], ptr[2])
    IN  Return([present |-> TRUE, x |-> s.x, y |-> s.y],
               [present |-> TRUE, screen |-> 0, w |-> w, h |-> h],
               <<Ev("position", ptr[1], ptr[2], <<>>),
                 Ev("grab", 0, 0, <<>>)>>)

cursor_position(w, h, ptr) ==
    LET s == scale_coordinates(w, h, "computer", ptr[1], ptr[2])
    IN  Return([present |-> TRUE, x |-> s.x, y |-> s.y], NoImage,
               <<Ev("position", ptr[1], ptr[2], <<>>)>>)

BareBranch(w, h, ptr, scr, action, text, coordinate, exists) ==
    LET v == ValidateBare(text, coordinate)
    IN  IF v # "" THEN Raise(v, <<>>)
        ELSE IF action = "screenshot" THEN screenshot(w, h, scr, exists, <<>>)
        ELSE IF action = "cursor_position" THEN cursor_position(w, h, ptr)
        ELSE Sleep(ClickEvents(action))

\* the last group is the default branch
call_default_bare(w, h, ptr, scr, action, text, coordinate, exists) ==
    IF action \in MoveActions
    THEN MoveBranch(w, h, action, text, coordinate)
    ELSE IF action \in TextActions
    THEN TextBranch(action, text, coordinate)
    ELSE BareBranch(w, h, ptr, scr, action, text, coordinate, exists)

call(w, h, ptr, scr, action, text, coordinate, exists) ==
    IF action \in MoveActions
    THEN MoveBranch(w, h, action, text, coordinate)
    ELSE IF action \in TextActions
    THEN TextBranch(action, text, coordinate)
    ELSE IF action \in BareActions
    THEN BareBranch(w, h, ptr, scr, action, text, coordinate, exists)
    ELSE Raise("Invalid action", <<>>)

\* take_action_screenshot after the delay: capture, keep only the image
take_action_screenshot(w, h, scr, exists, evs) ==
    LET r == screenshot(w, h, scr, exists, evs)
    IN  IF r.outcome = "raise" THEN r
        ELSE Return(NoOutput, r.base64_image, r.events)

(***************************************************************************)
(* State machine                                                           *)
(***************************************************************************)
NoReq == [action |-> "", text |-> NoneText, coordinate |-> NoneCoord]

NoCall ==
    [who |-> 0, action |-> "", text |-> NoneText, coordinate |-> NoneCoord,
     outcome |-> "", error |-> "", output |-> NoOutput,
     base64_image |-> NoImage, events |-> <<>>]

NoProbe == [stage |-> "off", x |-> 0, y |-> 0, cx |-> 0, cy |-> 0,
            ax |-> 0, ay |-> 0]

Completed(i, r, o) ==
    [who |-> i, action |-> r.action, text |-> r.text,
     coordinate |-> r.coordinate, outcome |-> o.outcome, error |-> o.error,
     output |-> o.output, base64_image |-> o.base64_image,
     events |-> o.events]

\* where the pointer is after the events of a step
PointerAfter(ptr, evs) ==
    IF evs # <<>> /\ evs[1].op \in PointerOps
    THEN <<evs[1].x, evs[1].y>> ELSE ptr

\* whether the events of a step changed what the screen shows
HasInput(evs) == \E k \in 1..Len(evs) : evs[k].op \in InputOps

Init ==
    /\ \E res \in Resolutions : width = res[1] /\ height = res[2]
    /\ pc = [i \in Invocations |-> "idle"]
    /\ req = [i \in Invocations |-> NoReq]
    /\ events = [i \in Invocations |-> <<>>]
    /\ pointer = <<width \div 2, height \div 2>>
    /\ screen = 0
    /\ returned = NoCall
    /\ probe = NoProbe

\* invocations wait for one another
CanStartQueued(i) ==
    /\ \A j \in Invocations : pc[j] = "idle"
    /\ returned = NoCall

\* __call__ takes no lock and waits for nothing before it runs
CanStart(i) ==
    /\ pc[i] = "idle"
    /\ returned = NoCall

\* An invocation starts and runs to its first suspension point or its end.
Call(i) ==
    /\ CanStart(i)
    /\ \E a \in Action \cup UnknownActions, t \in TextVals, c \in CoordVals :
       \E exists \in (IF a = "screenshot" THEN BOOLEAN ELSE {TRUE}) :
          LET r == [action |-> a, text |-> t, coordinate |-> c]
              o == call(width, height, pointer, screen, a, t, c, exists)
          IN  /\ pointer' = PointerAfter(pointer, o.events)
              /\ screen' = IF HasInput(o.events) THEN i ELSE screen
              /\ IF o.outcome = "sleep"
                 THEN /\ pc' = [pc EXCEPT ![i] = "sleeping"]
                      /\ req' = [req EXCEPT ![i] = r]
                      /\ events' = [events EXCEPT ![i] = o.events]
                      /\ returned' = NoCall
                 ELSE /\ returned' = Completed(i, r, o)
                      /\ UNCHANGED <<pc, req, events>>
    /\ UNCHANGED <<width, height, probe>>

\* The delay of a suspended invocation is over: capture and return.
Wake(i) ==
    /\ pc[i] = "sleeping"
    /\ returned = NoCall
    /\ \E exists \in BOOLEAN :
          LET o == take_action_screenshot(width, height, screen, exists,
                                          events[i])
          IN  returned' = Completed(i, req[i], o)
    /\ pc' = [pc EXCEPT ![i] = "idle"]
    /\ req' = [req EXCEPT ![i] = NoReq]
    /\ events' = [events EXCEPT ![i] = <<>>]
    /\ UNCHANGED <<width, height, pointer, screen, probe>>

\* The caller takes the result or the error of the invocation that ended.
Collect ==
    /\ returned # NoCall
    /\ returned' = NoCall
    /\ UNCHANGED <<width, height, pc, req, events, pointer, screen, probe>>

Next == (\E i \in Invocations : Call(i) \/ Wake(i)) \/ Collect

Spec == Init /\ [][Next]_vars

(***************************************************************************)
(* Scaling on its own: API space -> computer space -> API space            *)
(***************************************************************************)
ProbeYs(x, h) == {0, h, h + ProbeMargin, x % (h + 1)}

InitScale ==
    /\ \E res \in ScaleResolutions : width = res[1] /\ height = res[2]
    /\ pc = [i \in Invocations |-> "idle"]
    /\ req = [i \in Invocations |-> NoReq]
    /\ events = [i \in Invocations |-> <<>>]
    /\ pointer = <<width \div 2, height \div 2>>
    /\ screen = 0
    /\ returned = NoCall
    /\ \E x \in 0..(width + ProbeMargin) :
          \E y \in ProbeYs(x, height) :
             probe = [stage |-> "input", x |-> x, y |-> y, cx |-> 0, cy |-> 0,
                      ax |-> 0, ay |-> 0]

\* scale_coordinates(ScalingSource.API, x, y) returns
ProbeToComputer ==
    /\ probe.stage = "input"
    /\ LET s == scale_coordinates(width, height, "api", probe.x, probe.y)
       IN  /\ s.ok
           /\ probe' = [probe EXCEPT !.stage = "computer",
                                     !.cx = s.x, !.cy = s.y]
    /\ UNCHANGED <<width, height, pc, req, events, pointer, screen, returned>>

\* scale_coordinates(ScalingSource.API, x, y) raises
ProbeRejected ==
    /\ probe.stage = "input"
    /\ ~scale_coordinates(width, height, "api", probe.x, probe.y).ok
    /\ probe' = [probe EXCEPT !.stage = "rejected"]
    /\ UNCHANGED <<width, height, pc, req, events, pointer, screen, returned>>

\* scale_coordinates(ScalingSource.COMPUTER, cx, cy)
ProbeToApi ==
    /\ probe.stage = "computer"
    /\ LET s == scale_coordinates(width, height, "computer",
                                  probe.cx, probe.cy)
       IN  probe' = [probe EXCEPT !.stage = "api", !.ax = s.x, !.ay = s.y]
    /\ UNCHANGED <<width, height, pc, req, events, pointer, screen, returned>>

NextScale == ProbeToComputer \/ ProbeRejected \/ ProbeToApi

SpecScale == InitScale /\ [][NextScale]_vars

(***************************************************************************)
(* Properties                                                              *)
(***************************************************************************)
Abs(n) == IF n < 0 THEN -n ELSE n

\* the messages of the invalid-request errors
InvalidRequestErrors ==
    {"coordinate is required", "text is not accepted",
     "must be a tuple of length 2", "must be a tuple of non-negative ints",
     "out of bounds", "text is required", "coordinate is not accepted",
     "must be a string", "Invalid action"}

Ended == returned.who # 0

Failed == returned.outcome = "raise" /\ returned.error \in InvalidRequestErrors

Elems == returned.coordinate.elems

CoordAbsent == returned.coordinate.t = "none"

CoordPresent == returned.coordinate.t # "none"

NotAPair == CoordPresent /\ Len(Elems) # 2

HasNegativeInt ==
    \E k \in 1..Len(Elems) : Elems[k].t = "int" /\ Elems[k].v < 0

\* an element that is no instance of int: a float, a string
HasNonInteger ==
    \E k \in 1..Len(Elems) : Elems[k].t \in {"float", "str", "none"}

TextAbsent == returned.text.t = "none"

TextPresent == returned.text.t # "none"

RoundTripWithinOne ==
    Abs(probe.ax - probe.x) <= 1 /\ Abs(probe.ay - probe.y) <= 1

C2_MoveRejects ==
    (Ended /\ returned.action \in {"mouse_move", "left_click_drag"}
        /\ (CoordAbsent \/ NotAPair \/ HasNegativeInt \/ HasNonInteger
              \/ TextPresent))
        => Failed

C2_Witness ==
    /\ returned.action = "left_click_drag"
    /\ TextAbsent /\ ~NotAPair /\ HasNegativeInt
    /\ Failed

\* C3: key and type fail with an invalid-request error when text is absent
\* or a coordinate is present, whatever the other field holds.
C3_TextRejects ==
    (Ended /\ returned.action \in {"key", "type"}
        /\ (TextAbsent \/ CoordPresent))
        => Failed

C3_Witness ==
    /\ returned.action = "type"
    /\ returned.text.t = "str" /\ CoordPresent
    /\ Failed

\* C4: the four clicks, screenshot and cursor_position fail with an
\* invalid-request error when text or coordinate is supplied.
C4_BareRejects ==
    (Ended /\ returned.action \in
                {"left_click", "right_click", "middle_click", "double_click",
                 "screenshot", "cursor_position"}
        /\ (TextPresent \/ CoordPresent))
        => Failed

C4_Witness ==
    /\ returned.action = "cursor_position"
    /\ TextPresent /\ CoordAbsent
    /\ Failed

\* C5: an action outside the ten fixed actions fails with the invalid-action
\* error and no other, whatever text and coordinate are.
C5_UnknownAction ==
    (Ended /\ returned.action \notin
                {"key", "type", "mouse_move", "left_click", "left_click_drag",
                 "right_click", "middle_click", "double_click", "screenshot",
                 "cursor_position"})
        => (returned.outcome = "raise" /\ returned.error = "Invalid action")

C5_Witness ==
    /\ returned.action = "scroll"
    /\ TextPresent /\ NotAPair
    /\ returned.error = "Invalid action"

HasOp(evs, op) == \E k \in 1..Len(evs) : evs[k].op = op

\* C6: a successful screenshot returns an image and no text; a successful
\* cursor_position returns text and no image and captures nothing.
C6_Payloads ==
    /\ (returned.action = "screenshot" /\ returned.outcome = "return")
          => (returned.base64_image.present /\ ~returned.output.present)
    /\ (returned.action = "cursor_position" /\ returned.outcome = "return")
          => (returned.output.present /\ ~returned.base64_image.present
                /\ ~HasOp(returned.events, "grab"))

C6_Witness ==
    /\ returned.action = "cursor_position"
    /\ returned.outcome = "return"
    /\ returned.output.present
    /\ pointer # <<width \div 2, height \div 2>>

\* the capability an action maps to
OpsOf(action) ==
    IF action = "mouse_move" THEN {"moveTo"}
    ELSE IF action = "left_click_drag" THEN {"dragTo"}
    ELSE IF action = "key" THEN {"hotkey", "press"}
    ELSE IF action = "type" THEN {"write"}
    ELSE IF action = "left_click" THEN {"click"}
    ELSE IF action = "right_click" THEN {"rightClick"}
    ELSE IF action = "middle_click" THEN {"middleClick"}
    ELSE IF action = "double_click" THEN {"doubleClick"}
    ELSE IF action = "screenshot" THEN {"grab"}
    ELSE {"position"}

Ops(evs) == [k \in 1..Len(evs) |-> evs[k].op]

\* C7: a call that passes validation executes exactly one capability; for
\* the actions other than screenshot and cursor_position the order is input,
\* delay, one capture, end; screenshot captures with no delay before it.
C7_OneCapabilityInOrder ==
    /\ (Ended /\ ~Failed) =>
          /\ Len(returned.events) >= 1
          /\ returned.events[1].op \in OpsOf(returned.action)
          /\ IF returned.action \in {"screenshot", "cursor_position"}
             THEN Len(returned.events) = 1
             ELSE /\ Len(returned.events) = 3
                  /\ returned.events[2].op = "sleep"
                  /\ returned.events[3].op = "grab"
    /\ \A i \in Invocations :
          pc[i] = "sleeping" =>
             /\ Len(events[i]) = 2
             /\ events[i][1].op \in OpsOf(req[i].action)
             /\ events[i][2].op = "sleep"

C7_Witness ==
    /\ returned.action = "double_click"
    /\ returned.outcome = "return"
    /\ Ops(returned.events) = <<"doubleClick", "sleep", "grab">>

\* C8: a call that fails with an invalid-request error has done nothing:
\* no pointer move, drag, click, key press or text injection, no capture.
C8_FailsBeforeEffects ==
    [][(returned = NoCall /\ returned'.outcome = "raise"
          /\ returned'.error \in InvalidRequestErrors)
        => (returned'.events = <<>> /\ pointer' = pointer
              /\ screen' = screen /\ events' = events /\ pc' = pc)]_vars

C8_Witness ==
    /\ returned.action = "mouse_move"
    /\ returned.error = "out of bounds"
    /\ returned.events = <<>>
    /\ \E i \in Invocations : pc[i] = "sleeping"

\* C9: with scaling enabled, the point handed to the pointer move or drag
\* of a validated, in-bounds mouse_move or left_click_drag is on the screen.
C9_PointOnScreen ==
    \A i \in Invocations :
       (pc[i] = "sleeping" /\ req[i].action \in {"mouse_move", "left_click_drag"})
          => /\ 0 <= events[i][1].x /\ events[i][1].x <= width
             /\ 0 <= events[i][1].y /\ events[i][1].y <= height

\* C10: no invocation is blocked or queued behind another: one that has not
\* started can start whatever the other is doing, in particular during the
\* other's delay.
C10_NeverBlocked ==
    \A i \in Invocations :
       (pc[i] = "idle" /\ returned = NoCall) => ENABLED Call(i)

\* invocation 1 moved the pointer, invocation 2 injected input during the
\* delay of 1, and the image 1 returns was captured after that input
C10_Witness ==
    /\ returned.who = 1
    /\ returned.action = "mouse_move"
    /\ returned.outcome = "return"
    /\ returned.base64_image.screen = 2

====
